---- MODULE Spec2Model ----
(***************************************************************************)
(* A model of data_utils.py: get_class_name, load_data_from_files,         *)
(* prepare_data, balance_classes and the driver prepare_train_test_data.   *)
(*                                                                         *)
(* Arrays and tensors are sequences (1-based here, 0-based in the source). *)
(* A raised exception is a result with status "raised"; the random choices *)
(* of numpy and scikit-learn are nondeterministic choices.                 *)
(***************************************************************************)
EXTENDS Integers, Sequences, FiniteSets, TLC

VARIABLES
    entry,            \* the function that was called
    pc,               \* the next step of that call, "done" or "raised"
    err,              \* the step that raised, "" when none did
    ran,              \* the steps that have run, in order
    feature_value,    \* get_class_name: its argument
    class_name,       \* get_class_name: its result
    directory,        \* os.listdir(BASE_DATA_PATH) with each entry's content
    features,         \* 2-D feature matrix: a sequence of rows
    labels,           \* 1-D label vector
    window_size,      \* prepare_data: window_size
    stride,           \* prepare_data: stride
    X,                \* windows
    y,                \* one label per window
    target_size,      \* balance_classes: <<>> is None, <<t>> is t
    balanced_indices, \* balance_classes: the positions it kept (0-based)
    X_balanced,
    y_balanced,
    X_train,
    X_test,
    y_train,
    y_test,
    class_weights,    \* one weight per class, each a fraction <<num, den>>
    result            \* what prepare_train_test_data returned, <<>> before

vars == << entry, pc, err, ran, feature_value, class_name, directory, features,
           labels, window_size, stride, X, y, target_size, balanced_indices,
           X_balanced, y_balanced, X_train, X_test, y_train, y_test,
           class_weights, result >>

(***************************************************************************)
(* Bounds of the model.                                                    *)
(***************************************************************************)
\* get_class_name is tried on -MaxFeatureValue .. MaxFeatureValue
MaxFeatureValue == 60
\* prepare_data alone: at most MaxN rows, window_size and stride up to MaxStep
MaxN == 4
MaxStep == 3
\* balance_classes alone: at most MaxSamples samples, target_size up to MaxTarget
MaxSamples == 4
MaxTarget == 3
\* load_data_from_files alone: directory entries and data rows per file
MaxEntries == 2
MaxLoadRows == 2
\* the driver: data rows over all files of the directory
MaxRows == 5
\* the driver resumed after balancing: data rows of the one recording
MaxTailRows == 9
\* the driver's window_size. The source's default is 20 (line 106); the
\* model runs the same code with a shorter window so that recordings of a
\* few rows produce windows.
PipelineWindowSize == 2

\* The label integers (spec: "integer in {0,1,2,3}"; the keys of class_names)
Labels == {0, 1, 2, 3}

(***************************************************************************)
(* Helpers standing for Python and numpy primitives.                       *)
(***************************************************************************)
Min(a, b) == IF a < b THEN a ELSE b

SeqsUpTo(S, n) == UNION { [1..k -> S] : k \in 0..n }

Range(s) == { s[i] : i \in DOMAIN s }

\* number of entries of s equal to v
Count(s, v) == Cardinality({ i \in DOMAIN s : s[i] = v })

RECURSIVE Concat(_)
\* np.vstack / np.concatenate / torch.cat of a list of sequences
Concat(ss) == IF ss = << >> THEN << >> ELSE Head(ss) \o Concat(Tail(ss))

RECURSIVE SortedSeq(_)
\* the elements of a set of integers in ascending order
SortedSeq(S) ==
    IF S = {} THEN << >>
    ELSE LET m == CHOOSE x \in S : \A z \in S : x <= z
         IN  << m >> \o SortedSeq(S \ {m})

RECURSIVE Insert(_, _)
Insert(v, s) ==
    IF s = << >> THEN << v >>
    ELSE IF v <= Head(s) THEN << v >> \o s
    ELSE << Head(s) >> \o Insert(v, Tail(s))

RECURSIVE np_sort(_)
\* np.sort of a 1-D array: ascending, duplicates kept
np_sort(s) == IF s = << >> THEN << >> ELSE Insert(Head(s), np_sort(Tail(s)))

\* np.unique(a): the sorted distinct values
np_unique(a) == SortedSeq(Range(a))

\* np.unique(a, return_counts=True): the count of each distinct value
np_unique_counts(a) ==
    LET u == np_unique(a) IN [ k \in 1..Len(u) |-> Count(a, u[k]) ]

\* np.where(a == v)[0]: the 0-based positions holding v, ascending
np_where(a, v) == SortedSeq({ i - 1 : i \in { j \in DOMAIN a : a[j] = v } })

\* a[indices] with 0-based indices
Take(a, indices) == [ k \in 1..Len(indices) |-> a[indices[k] + 1] ]

RECURSIVE Arrangements(_, _)
\* every sequence of k distinct elements of the set S
Arrangements(S, k) ==
    IF k = 0 THEN { << >> }
    ELSE UNION { { << x >> \o r : r \in Arrangements(S \ {x}, k - 1) } : x \in S }

\* np.random.choice(a, size=size, replace=False): any size distinct entries
np_random_choice(a, size) == Arrangements(Range(a), size)

\* np.random.shuffle(list) / rng.permutation: any reordering of the list
Shuffles(s) ==
    { [ k \in 1..Len(s) |-> s[p[k]] ] : p \in Arrangements(DOMAIN s, Len(s)) }

RECURSIVE PyRange(_, _, _)
\* range(start, stop, step) for step >= 1
PyRange(start, stop, step) ==
    IF start >= stop THEN << >>
    ELSE << start >> \o PyRange(start + step, stop, step)

\* s[lo:hi] with Python's 0-based, end-exclusive bounds, 0 <= lo
Slice(s, lo, hi) == SubSeq(s, lo + 1, Min(hi, Len(s)))

(***************************************************************************)
(* get_class_name                                                          *)
(***************************************************************************)
class_names ==
    (0 :> "Non-request") @@ (1 :> "Both hands") @@
    (2 :> "Left hand") @@ (3 :> "Right hand")

\* a get_class_name with two names exchanged
get_class_name_swapped(value) ==
    IF value = 2 THEN "Right hand"
    ELSE IF value = 3 THEN "Left hand"
    ELSE IF value \in DOMAIN class_names THEN class_names[value]
    ELSE "Unknown"

\* class_names.get(feature_value, "Unknown")
get_class_name(value) ==
    IF value \in DOMAIN class_names THEN class_names[value] ELSE "Unknown"

(***************************************************************************)
(* prepare_data                                                            *)
(***************************************************************************)
\* a prepare_data that labels a window by its first row
prepare_data_first_label(f, l, w, s) ==
    LET starts == PyRange(0, Len(f) - w + 1, s)
    IN  [ X |-> [ k \in 1..Len(starts) |-> Slice(f, starts[k], starts[k] + w) ],
          y |-> [ k \in 1..Len(starts) |-> l[starts[k] + 1] ] ]

\* for i in range(0, len(features) - window_size + 1, stride):
\*     X.append(features[i:i + window_size]); y.append(labels[i + window_size - 1])
prepare_data(f, l, w, s) ==
    LET starts == PyRange(0, Len(f) - w + 1, s)
    IN  [ X |-> [ k \in 1..Len(starts) |-> Slice(f, starts[k], starts[k] + w) ],
          y |-> [ k \in 1..Len(starts) |-> l[(starts[k] + w - 1) + 1] ] ]

(***************************************************************************)
(* load_data_from_files                                                    *)
(*                                                                         *)
(* A directory entry is [name, lines]: the file name as a sequence of      *)
(* characters and the file's lines, each a sequence of cells; line 1 is    *)
(* the header row that pd.read_csv turns into the column names.            *)
(***************************************************************************)
CsvSuffix == << ".", "c", "s", "v" >>

\* str.endswith
endswith(name, suffix) ==
    /\ Len(name) >= Len(suffix)
    /\ SubSeq(name, Len(name) - Len(suffix) + 1, Len(name)) = suffix

\* a filter that forgets the dot of the extension
is_csv_nodot(filename) == endswith(filename, << "c", "s", "v" >>)

\* if filename.endswith('.csv'):
is_csv(filename) == endswith(filename, CsvSuffix)

\* pd.read_csv(file_path): the first line gives the columns, the others the
\* rows; a file without any line raises (EmptyDataError)
pd_read_csv(file) ==
    IF file.lines = << >>
    THEN [ status |-> "raised", columns |-> << >>, values |-> << >> ]
    ELSE [ status |-> "ok", columns |-> Head(file.lines),
           values |-> Tail(file.lines) ]

\* feature_cols = data.iloc[:, 1:-2].values
feature_cols(data) ==
    LET n == Len(data.columns)
        hi == IF n - 2 < 0 THEN 0 ELSE n - 2
    IN  [ width |-> Len(Slice(data.columns, 1, hi)),
          rows  |-> [ r \in 1..Len(data.values) |-> Slice(data.values[r], 1, hi) ] ]

\* labels = data.iloc[:, -2].values; a frame with fewer than two columns
\* raises (IndexError)
label_col(data) ==
    LET n == Len(data.columns)
    IN  IF n < 2 THEN [ status |-> "raised", values |-> << >> ]
        ELSE [ status |-> "ok",
               values |-> [ r \in 1..Len(data.values) |-> data.values[r][n - 1] ] ]

\* np.vstack(all_features): raises (ValueError) on an empty list and on
\* arrays of different widths
np_vstack(arrays) ==
    IF arrays = << >> \/ \E i, j \in DOMAIN arrays : arrays[i].width # arrays[j].width
    THEN [ status |-> "raised", rows |-> << >> ]
    ELSE [ status |-> "ok",
           rows |-> Concat([ i \in DOMAIN arrays |-> arrays[i].rows ]) ]

LoadRaised == [ status |-> "raised", features |-> << >>, labels |-> << >> ]

\* a load that returns empty arrays when there is nothing to stack
load_data_from_files_lenient(dir) ==
    LET files == SelectSeq(dir, LAMBDA e : is_csv(e.name))
        frames == [ i \in DOMAIN files |-> pd_read_csv(files[i]) ]
    IN  IF \E i \in DOMAIN frames : frames[i].status = "raised" THEN LoadRaised
        ELSE IF \E i \in DOMAIN frames : label_col(frames[i]).status = "raised"
        THEN LoadRaised
        ELSE LET all_features == [ i \in DOMAIN frames |-> feature_cols(frames[i]) ]
                 all_labels == [ i \in DOMAIN frames |-> label_col(frames[i]).values ]
                 stacked == np_vstack(all_features)
             IN  IF files = << >>
                 THEN [ status |-> "ok", features |-> << >>, labels |-> << >> ]
                 ELSE IF stacked.status = "raised" THEN LoadRaised
                 ELSE [ status |-> "ok", features |-> stacked.rows,
                        labels |-> Concat(all_labels) ]

\* for filename in os.listdir(BASE_DATA_PATH): if filename.endswith('.csv'): ...
\* features = np.vstack(all_features); labels = np.concatenate(all_labels)
load_data_from_files(dir) ==
    LET files == SelectSeq(dir, LAMBDA e : is_csv(e.name))
        frames == [ i \in DOMAIN files |-> pd_read_csv(files[i]) ]
    IN  IF \E i \in DOMAIN frames : frames[i].status = "raised" THEN LoadRaised
        ELSE IF \E i \in DOMAIN frames : label_col(frames[i]).status = "raised"
        THEN LoadRaised
        ELSE LET all_features == [ i \in DOMAIN frames |-> feature_cols(frames[i]) ]
                 all_labels == [ i \in DOMAIN frames |-> label_col(frames[i]).values ]
                 stacked == np_vstack(all_features)
             IN  IF stacked.status = "raised" THEN LoadRaised
                 ELSE [ status |-> "ok", features |-> stacked.rows,
                        labels |-> Concat(all_labels) ]

(***************************************************************************)
(* balance_classes                                                         *)
(***************************************************************************)
\* a default target that takes the largest class count: sorted_counts[-1]
default_target_size_largest(class_counts) ==
    LET sorted_counts == np_sort(class_counts)
    IN  IF Len(sorted_counts) < 2 THEN << >>
        ELSE << sorted_counts[Len(sorted_counts)] >>

\* sorted_counts = np.sort(class_counts); target_size = int(sorted_counts[-2])
\* << >> when the index is out of range (IndexError)
default_target_size(class_counts) ==
    LET sorted_counts == np_sort(class_counts)
    IN  IF Len(sorted_counts) < 2 THEN << >>
        ELSE << sorted_counts[Len(sorted_counts) - 1] >>

\* a sampling with replacement: np.random.choice(a, size=size)
np_random_choice_replace(a, size) == [ 1..size -> Range(a) ]

\* selected_indices = np.random.choice(cls_indices, size=target_size, replace=False)
select_indices(cls_indices, size) == np_random_choice(cls_indices, size)

RECURSIVE undersample(_, _, _)
\* for cls in unique_classes: ... balanced_indices.extend(...)
\* every list of indices the loop can build
undersample(unique_classes, y_np, size) ==
    IF unique_classes = << >> THEN { << >> }
    ELSE LET cls_indices == np_where(y_np, Head(unique_classes))
             picked == IF Len(cls_indices) > size
                       THEN select_indices(cls_indices, size)
                       ELSE { cls_indices }
         IN  { p \o r : p \in picked,
                        r \in undersample(Tail(unique_classes), y_np, size) }

BalanceRaised ==
    [ status |-> "raised", balanced_indices |-> << >>,
      X_balanced |-> << >>, y_balanced |-> << >> ]

\* balance_classes(X, y, target_size): every result the call can have
balance_classes(X_np, y_np, target) ==
    LET unique_classes == np_unique(y_np)
        class_counts == np_unique_counts(y_np)
        size == IF target = << >> THEN default_target_size(class_counts) ELSE target
    IN  IF size = << >> THEN { BalanceRaised }
        ELSE { [ status |-> "ok", balanced_indices |-> b,
                 X_balanced |-> Take(X_np, b), y_balanced |-> Take(y_np, b) ] :
               b \in UNION { Shuffles(u) :
                             u \in undersample(unique_classes, y_np, size[1]) } }

(***************************************************************************)
(* prepare_train_test_data: the split and the class weights                *)
(***************************************************************************)
\* sklearn's size of the test set for test_size=0.2: ceil(0.2 * n_samples).
\* The double 0.2 * n rounds to n / 5 exactly when 5 divides n, so the
\* ceiling is that of the exact quotient.
n_test_of(n_samples) == (n_samples + 4) \div 5

\* train_test_split(X_class, y_class, test_size=0.2, random_state=42) on
\* n_samples samples: the positions (0-based, within the class) that go to
\* each side, in the order of the generator's permutation; raises
\* (ValueError) when the training side would be empty
train_test_split(n_samples) ==
    LET n_test == n_test_of(n_samples)
        n_train == n_samples - n_test
    IN  IF n_train = 0 THEN { [ status |-> "raised", train |-> << >>, test |-> << >> ] }
        ELSE { [ status |-> "ok",
                 train |-> SubSeq(p, n_test + 1, n_test + n_train),
                 test  |-> SubSeq(p, 1, n_test) ] :
               p \in Shuffles([ k \in 1..n_samples |-> k - 1 ]) }

\* the classes the split visits: for i in range(len(unique_labels))
class_values(unique_labels) == PyRange(0, Len(unique_labels), 1)

SplitRaised ==
    [ status |-> "raised", X_train |-> << >>, X_test |-> << >>,
      y_train |-> << >>, y_test |-> << >> ]

RECURSIVE split_classes(_, _, _)
\* lines 152-170: one train_test_split per class, the parts concatenated in
\* the order of the classes; every result the loop can have
split_classes(classes, Xb, yb) ==
    IF classes = << >>
    THEN { [ status |-> "ok", X_train |-> << >>, X_test |-> << >>,
             y_train |-> << >>, y_test |-> << >> ] }
    ELSE LET mask == np_where(yb, Head(classes))
             X_class == Take(Xb, mask)
             y_class == Take(yb, mask)
             parts == train_test_split(Len(mask))
             rests == split_classes(Tail(classes), Xb, yb)
         IN  IF \E q \in parts : q.status = "raised" THEN { SplitRaised }
             ELSE IF \E r \in rests : r.status = "raised" THEN { SplitRaised }
             ELSE { [ status |-> "ok",
                      X_train |-> Take(X_class, q.train) \o r.X_train,
                      X_test  |-> Take(X_class, q.test) \o r.X_test,
                      y_train |-> Take(y_class, q.train) \o r.y_train,
                      y_test  |-> Take(y_class, q.test) \o r.y_test ] :
                    q \in parts, r \in rests }

\* weights computed from the training labels
weights_labels_train(yb, ytr) == ytr

\* the label vector handed to compute_class_weight: y=y_balanced.numpy()
weights_labels(yb, ytr) == yb

\* compute_class_weight(class_weight='balanced', classes=classes, y=y_np):
\* n_samples / (n_classes * count) per class, as the fraction <<num, den>>
compute_class_weight(classes, y_np) ==
    [ k \in 1..Len(classes) |->
        << Len(y_np), Len(np_unique(y_np)) * Count(y_np, classes[k]) >> ]

(***************************************************************************)
(* Inputs                                                                  *)
(***************************************************************************)
Stems == << "a", "b", "c", "d", "e" >>
TxtSuffix == << ".", "t", "x", "t" >>
Extensions == { CsvSuffix, TxtSuffix, << "c", "s", "v" >> }

\* The file at position f of the listing, with ncols columns and one data
\* row per entry of labs. The header cells are negative, the label column
\* (the second-to-last) holds labs, every other cell is a number of its own.
MakeFile(f, ext, ncols, labs) ==
    [ name  |-> << Stems[f] >> \o ext,
      lines |-> << [ c \in 1..ncols |-> 0 - c ] >> \o
                [ r \in 1..Len(labs) |->
                    [ c \in 1..ncols |->
                        IF c = ncols - 1 THEN labs[r] ELSE 100 * f + 10 * r + c ] ] ]

EmptyFile(f, ext) == [ name |-> << Stems[f] >> \o ext, lines |-> << >> ]

\* the column counts tried by load_data_from_files alone
ColumnCounts == {1, 4, 5}

LoadEntries(f) ==
    { EmptyFile(f, ext) : ext \in Extensions } \cup
    { MakeFile(f, ext, ncols, [ r \in 1..nrows |-> (f + r) % 4 ]) :
        ext \in Extensions, ncols \in ColumnCounts, nrows \in 0..MaxLoadRows }

RECURSIVE LoadDirs(_)
LoadDirs(k) ==
    IF k = 0 THEN { << >> }
    ELSE LET shorter == LoadDirs(k - 1)
         IN  shorter \cup
             { Append(d, e) : d \in { x \in shorter : Len(x) = k - 1 },
                              e \in LoadEntries(k) }

\* the driver's recordings have one feature column
DriverColumns == 4

\* a directory without any .csv file
NoCsvDirs == { << >>, << MakeFile(1, TxtSuffix, DriverColumns, << 0, 1 >>) >> }

\* a directory of .csv recordings whose label columns, one after the other,
\* are l: one recording when cut = 0, else two, the first with cut rows
Recordings(l, cut) ==
    IF cut = 0 THEN << MakeFile(1, CsvSuffix, DriverColumns, l) >>
    ELSE << MakeFile(1, CsvSuffix, DriverColumns, SubSeq(l, 1, cut)),
            MakeFile(2, CsvSuffix, DriverColumns, SubSeq(l, cut + 1, Len(l))) >>

RECURSIVE NonDecreasing(_, _)
\* the non-decreasing label sequences of length n with entries >= lo
NonDecreasing(n, lo) ==
    IF n = 0 THEN { << >> }
    ELSE UNION { { << v >> \o r : r \in NonDecreasing(n - 1, v) } :
                 v \in { x \in Labels : x >= lo } }

(***************************************************************************)
(* The calls                                                               *)
(***************************************************************************)
Driver == "prepare_train_test_data"

\* the step that follows `step` in prepare_train_test_data; a function
\* called on its own is done after its one step
After(step) ==
    IF entry # Driver THEN "done"
    ELSE CASE step = "load_data_from_files" -> "prepare_data"
           [] step = "prepare_data" -> "balance_classes"
           [] step = "balance_classes" -> "split"
           [] step = "split" -> "class_weights"
           [] step = "class_weights" -> "return"
           [] OTHER -> "done"

NameIdle == feature_value = 0 /\ class_name = ""
LoadIdle == directory = << >> /\ features = << >> /\ labels = << >>
WindowIdle == window_size = 0 /\ stride = 0 /\ X = << >> /\ y = << >>
BalanceIdle ==
    /\ target_size = << >> /\ balanced_indices = << >>
    /\ X_balanced = << >> /\ y_balanced = << >>
SplitIdle ==
    /\ X_train = << >> /\ X_test = << >> /\ y_train = << >> /\ y_test = << >>
    /\ class_weights = << >> /\ result = << >>

InitName ==
    /\ entry = "get_class_name" /\ pc = "get_class_name" /\ err = "" /\ ran = << >>
    /\ feature_value \in (0 - MaxFeatureValue)..MaxFeatureValue
    /\ class_name = ""
    /\ LoadIdle /\ WindowIdle /\ BalanceIdle /\ SplitIdle

InitLoad ==
    /\ entry = "load_data_from_files" /\ pc = "load_data_from_files"
    /\ err = "" /\ ran = << >>
    /\ directory \in LoadDirs(MaxEntries)
    /\ features = << >> /\ labels = << >>
    /\ NameIdle /\ WindowIdle /\ BalanceIdle /\ SplitIdle

InitWindow ==
    /\ entry = "prepare_data" /\ pc = "prepare_data" /\ err = "" /\ ran = << >>
    /\ directory = << >>
    /\ labels \in SeqsUpTo(Labels, MaxN)
    /\ features = [ k \in 1..Len(labels) |-> << k >> ]
    /\ window_size \in 1..MaxStep
    /\ stride \in 1..MaxStep
    /\ X = << >> /\ y = << >>
    /\ NameIdle /\ BalanceIdle /\ SplitIdle

InitBalance ==
    /\ entry = "balance_classes" /\ pc = "balance_classes" /\ err = "" /\ ran = << >>
    /\ y \in SeqsUpTo(Labels, MaxSamples)
    /\ X = [ k \in 1..Len(y) |-> << << k >> >> ]
    /\ window_size = 0 /\ stride = 0
    /\ target_size \in { << >> } \cup { << t >> : t \in 0..MaxTarget }
    /\ balanced_indices = << >> /\ X_balanced = << >> /\ y_balanced = << >>
    /\ NameIdle /\ LoadIdle /\ SplitIdle

\* prepare_train_test_data() called on a directory
InitDriverStart ==
    /\ entry = Driver /\ pc = "load_data_from_files" /\ err = "" /\ ran = << >>
    /\ \/ directory \in NoCsvDirs
       \/ \E l \in SeqsUpTo(Labels, MaxRows) :
            \E cut \in { c \in 0..Len(l) : c = 0 \/ c < Len(l) } :
                directory = Recordings(l, cut)
    /\ features = << >> /\ labels = << >>
    /\ window_size = PipelineWindowSize /\ stride = 1
    /\ X = << >> /\ y = << >>
    /\ NameIdle /\ BalanceIdle /\ SplitIdle

\* prepare_train_test_data() on one longer recording, taken up where
\* balance_classes has returned: the recordings are those whose two largest
\* classes are tied, so that balancing keeps every window, and of the
\* orders np.random.shuffle can leave them in, the windows are in their
\* original order.
InitDriverBalanced ==
    /\ entry = Driver /\ pc = "split" /\ err = ""
    /\ ran = << "load_data_from_files", "prepare_data", "balance_classes" >>
    /\ \E l \in NonDecreasing(MaxTailRows, 0) :
         LET d == << MakeFile(1, CsvSuffix, DriverColumns, l) >>
             loaded == load_data_from_files(d)
             w == prepare_data(loaded.features, loaded.labels, PipelineWindowSize, 1)
             size == default_target_size(np_unique_counts(w.y))
         IN  /\ size # << >>
             /\ \A c \in Range(w.y) : Count(w.y, c) <= size[1]
             /\ directory = d
             /\ features = loaded.features /\ labels = loaded.labels
             /\ X = w.X /\ y = w.y
             /\ balanced_indices = [ k \in 1..Len(w.y) |-> k - 1 ]
             /\ X_balanced = w.X /\ y_balanced = w.y
    /\ window_size = PipelineWindowSize /\ stride = 1
    /\ target_size = << >>
    /\ NameIdle /\ SplitIdle

Init ==
    \/ InitName \/ InitLoad \/ InitWindow \/ InitBalance
    \/ InitDriverStart \/ InitDriverBalanced

GetClassName ==
    /\ pc = "get_class_name"
    /\ class_name' = get_class_name(feature_value)
    /\ pc' = After("get_class_name")
    /\ ran' = Append(ran, "get_class_name")
    /\ UNCHANGED << entry, err, feature_value, directory, features, labels,
                    window_size, stride, X, y, target_size, balanced_indices,
                    X_balanced, y_balanced, X_train, X_test, y_train, y_test,
                    class_weights, result >>

\* features, labels = load_data_from_files()
Load ==
    /\ pc = "load_data_from_files"
    /\ LET r == load_data_from_files(directory)
       IN  IF r.status = "raised"
           THEN /\ pc' = "raised" /\ err' = "load_data_from_files"
                /\ UNCHANGED << features, labels >>
           ELSE /\ pc' = After("load_data_from_files") /\ err' = err
                /\ features' = r.features /\ labels' = r.labels
    /\ ran' = Append(ran, "load_data_from_files")
    /\ UNCHANGED << entry, feature_value, class_name, directory,
                    window_size, stride, X, y, target_size, balanced_indices,
                    X_balanced, y_balanced, X_train, X_test, y_train, y_test,
                    class_weights, result >>

\* X, y = prepare_data(features, labels)
Window ==
    /\ pc = "prepare_data"
    /\ LET r == prepare_data(features, labels, window_size, stride)
       IN  X' = r.X /\ y' = r.y
    /\ pc' = After("prepare_data")
    /\ ran' = Append(ran, "prepare_data")
    /\ UNCHANGED << entry, err, feature_value, class_name, directory, features,
                    labels, window_size, stride, target_size, balanced_indices,
                    X_balanced, y_balanced, X_train, X_test, y_train, y_test,
                    class_weights, result >>

\* X_balanced, y_balanced = balance_classes(X, y)
Balance ==
    /\ pc = "balance_classes"
    /\ \E r \in balance_classes(X, y, target_size) :
         IF r.status = "raised"
         THEN /\ pc' = "raised" /\ err' = "balance_classes"
              /\ UNCHANGED << balanced_indices, X_balanced, y_balanced >>
         ELSE /\ pc' = After("balance_classes") /\ err' = err
              /\ balanced_indices' = r.balanced_indices
              /\ X_balanced' = r.X_balanced /\ y_balanced' = r.y_balanced
    /\ ran' = Append(ran, "balance_classes")
    /\ UNCHANGED << entry, feature_value, class_name, directory, features,
                    labels, window_size, stride, X, y, target_size,
                    X_train, X_test, y_train, y_test, class_weights, result >>

\* lines 146-170: the split by class
Split ==
    /\ pc = "split"
    /\ LET unique_labels == np_unique(y_balanced)
       IN  \E r \in split_classes(class_values(unique_labels), X_balanced, y_balanced) :
             IF r.status = "raised"
             THEN /\ pc' = "raised" /\ err' = "split"
                  /\ UNCHANGED << X_train, X_test, y_train, y_test >>
             ELSE /\ pc' = After("split") /\ err' = err
                  /\ X_train' = r.X_train /\ X_test' = r.X_test
                  /\ y_train' = r.y_train /\ y_test' = r.y_test
    /\ ran' = Append(ran, "split")
    /\ UNCHANGED << entry, feature_value, class_name, directory, features,
                    labels, window_size, stride, X, y, target_size,
                    balanced_indices, X_balanced, y_balanced, class_weights,
                    result >>

\* lines 172-177: the class weights
Weights ==
    /\ pc = "class_weights"
    /\ class_weights' = compute_class_weight(np_unique(y_balanced),
                                             weights_labels(y_balanced, y_train))
    /\ pc' = After("class_weights")
    /\ ran' = Append(ran, "class_weights")
    /\ UNCHANGED << entry, err, feature_value, class_name, directory, features,
                    labels, window_size, stride, X, y, target_size,
                    balanced_indices, X_balanced, y_balanced, X_train, X_test,
                    y_train, y_test, result >>

\* return X_train, X_test, y_train, y_test, class_weights
Return ==
    /\ pc = "return"
    /\ result' = << X_train, X_test, y_train, y_test, class_weights >>
    /\ pc' = "done"
    /\ ran' = Append(ran, "return")
    /\ UNCHANGED << entry, err, feature_value, class_name, directory, features,
                    labels, window_size, stride, X, y, target_size,
                    balanced_indices, X_balanced, y_balanced, X_train, X_test,
                    y_train, y_test, class_weights >>

NextDriver == Load \/ Window \/ Balance \/ Split \/ Weights \/ Return

Next == GetClassName \/ Load \/ Window \/ Balance \/ Split \/ Weights \/ Return

SpecName == InitName /\ [][GetClassName]_vars
SpecLoad == InitLoad /\ [][Load]_vars
SpecWindow == InitWindow /\ [][Window]_vars
SpecBalance == InitBalance /\ [][Balance]_vars
SpecDriver == InitDriverStart /\ [][NextDriver]_vars
SpecDriverLong == (InitDriverStart \/ InitDriverBalanced) /\ [][NextDriver]_vars
Spec == Init /\ [][Next]_vars

(***************************************************************************)
(* Properties                                                              *)
(***************************************************************************)
Returned(fn) == entry = fn /\ pc = "done"

\* C1: prepare_data returns exactly the windows that start at 0, s, 2s, ...
\* up to the last start <= n - w, in that order: the window starting at i is
\* rows i .. i+w-1 in their order and its label is labels[i+w-1]; when
\* n < w it returns no window.
C1_PrepareDataWindows ==
    Returned("prepare_data") =>
        LET n == Len(features)
            w == window_size
            starts == SortedSeq({ i \in 0..(n - w) : i % stride = 0 })
        IN  /\ Len(X) = Len(starts)
            /\ Len(y) = Len(starts)
            /\ \A k \in 1..Len(starts) :
                 /\ Len(X[k]) = w
                 /\ \A j \in 1..w : X[k][j] = features[starts[k] + j]
                 /\ y[k] = labels[starts[k] + w]
            /\ (n < w => X = << >> /\ y = << >>)

\* prepare_data has returned two windows taken two rows apart, each two
\* rows long, from rows whose labels are not all the same
C1_Witness ==
    /\ Returned("prepare_data")
    /\ window_size = 2 /\ stride = 2 /\ Len(features) = 4
    /\ Len(X) = 2
    /\ labels[1] # labels[2] /\ labels[3] # labels[4]

\* C2: with a target_size t, balance_classes returns a selection of distinct
\* input positions, each sample with the label it had, holding exactly
\* min(n_c, t) samples of every class c.
C2_UnderSamplingOnly ==
    (entry = "balance_classes" /\ target_size # << >> /\ pc # "balance_classes") =>
        LET t == target_size[1]
        IN  /\ pc = "done"
            /\ Len(X_balanced) = Len(balanced_indices)
            /\ Len(y_balanced) = Len(balanced_indices)
            /\ \A k \in DOMAIN balanced_indices :
                 /\ balanced_indices[k] \in 0..(Len(y) - 1)
                 /\ X_balanced[k] = X[balanced_indices[k] + 1]
                 /\ y_balanced[k] = y[balanced_indices[k] + 1]
            /\ \A j, k \in DOMAIN balanced_indices :
                 j # k => balanced_indices[j] # balanced_indices[k]
            /\ \A c \in Labels : Count(y_balanced, c) = Min(Count(y, c), t)

\* balance_classes(X, y, 2) has returned on an input with a class of three
\* samples and a class of one
C2_Witness ==
    /\ Returned("balance_classes")
    /\ target_size = << 2 >>
    /\ \E c, d \in Labels :
         /\ Count(y, c) = 3 /\ Count(y_balanced, c) = 2
         /\ Count(y, d) = 1 /\ Count(y_balanced, d) = 1

\* the largest per-class count of y
C8_Largest == CHOOSE m \in 0..Len(y) :
    /\ \A c \in Labels : Count(y, c) <= m
    /\ \E c \in Labels : Count(y, c) = m

\* the second-largest per-class count of y (equal to the largest on a tie),
\* for a y of at least two classes
C8_Second == CHOOSE m \in 0..Len(y) :
    \E c \in Range(y) :
        /\ Count(y, c) = C8_Largest
        /\ \A d \in Range(y) \ {c} : Count(y, d) <= m
        /\ \E d \in Range(y) \ {c} : Count(y, d) = m

\* C8: without target_size, on an input of at least two classes the largest
\* class is cut to the second-largest count, every other class keeps all its
\* samples, and nothing is removed when the two largest counts are tied; on
\* an input of a single class the call raises.
C8_DefaultTarget ==
    (entry = "balance_classes" /\ target_size = << >> /\ pc # "balance_classes") =>
        /\ Cardinality(Range(y)) = 1 => pc = "raised"
        /\ Cardinality(Range(y)) >= 2 =>
             /\ pc = "done"
             /\ \A c \in Range(y) :
                  Count(y_balanced, c) =
                      IF Count(y, c) = C8_Largest THEN C8_Second ELSE Count(y, c)
             /\ (C8_Second = C8_Largest => Len(y_balanced) = Len(y))

\* balance_classes(X, y) has returned on an input with a class of three
\* samples and a class of one: the class of three is cut to one
C8_Witness ==
    /\ Returned("balance_classes")
    /\ target_size = << >>
    /\ \E c, d \in Labels :
         /\ Count(y, c) = 3 /\ Count(y_balanced, c) = 1
         /\ Count(y, d) = 1 /\ Count(y_balanced, d) = 1

\* whether a file name ends in ".csv"
C5_CsvName(name) ==
    /\ Len(name) >= 4
    /\ name[Len(name) - 3] = "." /\ name[Len(name) - 2] = "c"
    /\ name[Len(name) - 1] = "s" /\ name[Len(name)] = "v"

\* the data rows of the .csv entries, as << entry, row >>, in listing order
C5_Rows ==
    Concat([ f \in DOMAIN directory |->
               IF C5_CsvName(directory[f].name)
               THEN [ r \in 1..(Len(directory[f].lines) - 1) |-> << f, r >> ]
               ELSE << >> ])

C6_ClassNames ==
    Returned("get_class_name") =>
        /\ class_name = CASE feature_value = 0 -> "Non-request"
                          [] feature_value = 1 -> "Both hands"
                          [] feature_value = 2 -> "Left hand"
                          [] feature_value = 3 -> "Right hand"
                          [] OTHER -> "Unknown"
        /\ (feature_value \in 0..3 =>
              \A v \in 0..3 :
                  v # feature_value => get_class_name(v) # class_name)

\* get_class_name has returned "Unknown" for a negative value
C6_Witness ==
    /\ Returned("get_class_name")
    /\ feature_value = 0 - 1
    /\ class_name = "Unknown"

DriverSteps ==
    << "load_data_from_files", "prepare_data", "balance_classes", "split",
       "class_weights", "return" >>

\* C7: prepare_train_test_data either runs all its steps and returns its
\* five outputs or raises with no output; on a directory without a .csv
\* file the load raises instead of returning empty arrays; no step runs
\* after one has raised.
C7_AllOrNothing ==
    entry = Driver =>
        /\ ran = SubSeq(DriverSteps, 1, Len(ran))
        /\ (pc = "done" =>
              /\ ran = DriverSteps /\ err = ""
              /\ result = << X_train, X_test, y_train, y_test, class_weights >>)
        /\ (pc # "done" => result = << >>)
        /\ (pc = "raised" <=> err # "")
        /\ (pc = "raised" => ran # << >> /\ err = ran[Len(ran)])
        /\ ((ran # << >> /\ \A f \in DOMAIN directory : ~ C5_CsvName(directory[f].name)) =>
              /\ pc = "raised" /\ err = "load_data_from_files"
              /\ ran = << "load_data_from_files" >>)

\* prepare_train_test_data has raised in the load on a directory whose only
\* entry is not a .csv file
C7_Witness ==
    /\ entry = Driver /\ pc = "raised" /\ err = "load_data_from_files"
    /\ Len(directory) = 1
    /\ ~ C5_CsvName(directory[1].name)

\* C4: the returned class weights hold one weight per distinct class of the
\* balanced set, in ascending label order, computed from the whole balanced
\* label set: weight_c * K * n_c = N.
C4_ClassWeights ==
    Returned(Driver) =>
        LET weights == result[5]
            classes == SortedSeq(Range(y_balanced))
            K == Len(classes)
            N == Len(y_balanced)
        IN  /\ Len(weights) = K
            /\ \A k \in 1..K :
                 /\ weights[k][2] > 0
                 /\ weights[k][1] * K * Count(y_balanced, classes[k])
                        = N * weights[k][2]

\* prepare_train_test_data has returned on a balanced set of three classes
\* with three, three and two samples, whose weights are not all equal
C4_Witness ==
    /\ Returned(Driver)
    /\ Len(result[5]) = 3
    /\ Count(y_balanced, 0) = 3 /\ Count(y_balanced, 1) = 3
    /\ Count(y_balanced, 2) = 2
    /\ Count(y_train, 0) = 2 /\ Count(y_train, 2) = 1
    /\ result[5][1][1] * result[5][3][2] # result[5][3][1] * result[5][1][2]

\* the samples of a set as pairs << window, label >>
Pairs(Xs, ys) == [ k \in DOMAIN ys |-> << Xs[k], ys[k] >> ]

SplitHasRun == entry = Driver /\ \E k \in DOMAIN ran : ran[k] = "split"

EveryClassSplittable == \A c \in Range(y_balanced) : Count(y_balanced, c) >= 2

\* C3: the split partitions the balanced data, whatever labels of {0,1,2,3}
\* are present: every balanced sample is in exactly one of the training and
\* the test set, with its label. (Stated for balanced sets whose every
\* class has the two samples a split needs.)
C3_SplitPartitions ==
    (SplitHasRun /\ EveryClassSplittable) =>
        /\ pc # "raised"
        /\ Len(y_train) + Len(y_test) = Len(y_balanced)
        /\ Len(X_train) = Len(y_train) /\ Len(X_test) = Len(y_test)
        /\ \A k \in DOMAIN y_balanced :
             LET p == << X_balanced[k], y_balanced[k] >>
             IN  Count(Pairs(X_train, y_train), p) + Count(Pairs(X_test, y_test), p)
                     = Count(Pairs(X_balanced, y_balanced), p)

NonDecreasingSeq(s) == \A i, j \in DOMAIN s : i < j => s[i] <= s[j]

\* C9: class by class, a class of n_c >= 2 balanced samples gives
\* ceil(0.2 * n_c) samples to the test set and the others to the training
\* set, the classes in ascending label order in both; a class of fewer than
\* two balanced samples makes the split raise.
C9_SplitSizes ==
    SplitHasRun =>
        /\ ~ EveryClassSplittable => (pc = "raised" /\ err = "split")
        /\ EveryClassSplittable =>
             /\ pc # "raised"
             /\ \A c \in Range(y_balanced) :
                  LET n_c == Count(y_balanced, c)
                      m == CHOOSE q \in 0..n_c : 5 * q >= n_c /\ 5 * (q - 1) < n_c
                  IN  /\ Count(y_test, c) = m
                      /\ Count(y_train, c) = n_c - m
             /\ NonDecreasingSeq(y_train) /\ NonDecreasingSeq(y_test)

\* the file a feature cell was read from, and its data row there (MakeFile)
FileOfCell(v) == v \div 100
RowOfCell(v) == (v \div 10) % 10

OneRecording(window) ==
    \A i \in DOMAIN window :
        /\ FileOfCell(window[i][1]) = FileOfCell(window[1][1])
        /\ RowOfCell(window[i][1]) = RowOfCell(window[1][1]) + (i - 1)

\* C10: in prepare_train_test_data every window is a contiguous slice of
\* rows of one recording: no window handed to balancing, to the training
\* set or to the test set holds rows of two different .csv files.
C10_WindowsWithinOneFile ==
    entry = Driver =>
        /\ \A k \in DOMAIN X : OneRecording(X[k])
        /\ \A k \in DOMAIN X_balanced : OneRecording(X_balanced[k])
        /\ \A k \in DOMAIN X_train : OneRecording(X_train[k])
        /\ \A k \in DOMAIN X_test : OneRecording(X_test[k])

====
